---- MODULE Spec2Model ----
(***************************************************************************)
(* Model of the Express rate limiter middleware                            *)
(* (src/src/middleware/rateLimiter.ts).                                    *)
(*                                                                         *)
(* Time is counted in clock ticks; TicksPerSec ticks make one second (the  *)
(* source counts milliseconds, 1000 to the second).  Date.now() is read    *)
(* three times in one middleware invocation (cleanup, window check, header *)
(* computation) and the clock may advance between the reads.               *)
(***************************************************************************)
EXTENDS Integers, Sequences, FiniteSets

\* ---------------------------------------------------------------- bounds
MaxLimit == 2
MaxWindowSec == 1
TicksPerSec == 2
MaxTime == 3
MaxSkew == 1
MaxCount == 3
MaxUuid == 1
MaxChainRequests == 6
MaxInflight == 3
MaxClientRequests == 6

\* ------------------------------------------------------------- constants
DEFAULT_RATE_LIMIT == 5
DEFAULT_RATE_WINDOW_SEC == 60
GeneralLimit == 100
ExpensiveLimit == 5
ExampleWindowSec == 60
RATE_LIMITED == 429
OK == 200

Undefined == "<undefined>"
UserIds == {"a", "b"}
Uuid(n) ==
    CASE n = 1 -> "uuid-1" [] n = 2 -> "uuid-2" [] n = 3 -> "uuid-3"
      [] n = 4 -> "uuid-4" [] n = 5 -> "uuid-5" [] n = 6 -> "uuid-6"
      [] n = 7 -> "uuid-7" [] OTHER -> "uuid-8"
Uuids == {Uuid(n) : n \in 1..8}
Keys == UserIds \cup Uuids
\* the clients that send requests: one per userId cookie, and one that never
\* sends a cookie
Anonymous == "anonymous"
Clients == UserIds \cup {Anonymous}

RateLimitedBody == <<"rate_limited", "Too many requests, please try again later.">>
NoBody == <<>>

Faults == {"none", "cookie", "storeSet", "setHeaderLimit", "setHeaderRemaining",
           "setHeaderReset", "status", "json", "next", "nextAlways"}

VARIABLES
    rateLimitStore,  \* Map<string, UserRateLimit>: key -> [count, resetTime]
    instances,       \* middleware instances: id -> RateLimitConfig
    clock,           \* Date.now(), in ticks
    uuidCount,       \* number of ids uuidv4() has issued
    reqObj,          \* the request object of the latest invocation
    last,            \* the last operation and what its caller observed
    win,             \* history: per key, the window opened for it and the calls made in it
    without,         \* history: per user id A, the store of the run without A's invocations
    served,          \* history: per client, the requests it has sent
    pending,         \* per user id, the requests in flight and the size of their burst
    wasReset,        \* history: the exhausted keys reset and not called since
    noStats,         \* history: the store of the run without the getRateLimitStats calls
    tally,           \* history: per user id, the verdicts of the calls of its window
    lazy,            \* history: the store of the run in which cleanupExpiredEntries never runs
    invoked          \* history: the keys of the invocations made since the key was last reset

vars == <<rateLimitStore, instances, clock, uuidCount, reqObj, last, win, without,
          served, pending, wasReset, noStats, tally, lazy, invoked>>

\* ------------------------------------------------------------- helpers
Put(f, k, v) == [x \in (DOMAIN f) \cup {k} |-> IF x = k THEN v ELSE f[x]]
Remove(f, k) == [x \in (DOMAIN f) \ {k} |-> f[x]]
EmptyMap == [x \in {} |-> 0]
Max(a, b) == IF a >= b THEN a ELSE b

\* Math.ceil(a / b) for b > 0 and any integer a
Ceil(a, b) == IF a >= 0 THEN (a + b - 1) \div b ELSE -((-a) \div b)

\* ------------------------------------------------- cleanupExpiredEntries
IsExpired(now, data) == now > data.resetTime

\* variant: the loop clears the whole store once it meets an expired entry
cleanupExpiredEntries_ClearAll(st, now) ==
    IF \E x \in DOMAIN st : IsExpired(now, st[x]) THEN EmptyMap ELSE st

cleanupExpiredEntries(st, now) ==
    [k \in {x \in DOMAIN st : ~IsExpired(now, st[x])} |-> st[k]]

\* ------------------------------------------------------------- getUserId
\* JavaScript truthiness of a string-or-undefined value
Truthy(s) == s # Undefined /\ s # ""

\* returns the key, the request and response as left by the call, the uuid
\* counter and whether res.cookie threw
getUserId(req, res, n, fault) ==
    IF Truthy(req.userId)
    THEN [userId |-> req.userId, req |-> req, res |-> res, n |-> n, threw |-> FALSE]
    ELSE IF Truthy(req.cookie)
    THEN [userId |-> req.cookie, req |-> [req EXCEPT !.userId = req.cookie],
          res |-> res, n |-> n, threw |-> FALSE]
    ELSE LET userId == Uuid(n + 1)
             req2 == [req EXCEPT !.userId = userId]
         IN IF fault = "cookie"
            THEN [userId |-> userId, req |-> req2, res |-> res, n |-> n + 1,
                  threw |-> TRUE]
            ELSE [userId |-> userId, req |-> req2,
                  res |-> [res EXCEPT !.cookie = userId], n |-> n + 1,
                  threw |-> FALSE]

\* -------------------------------------------------- getUserRateLimitData
\* variant: remaining computed as if the current call were not yet counted
getUserRateLimitData_BeforeIncrement(st, userId, config, now) ==
    IF userId \notin DOMAIN st \/ now > st[userId].resetTime
    THEN [remaining |-> config.limit, resetIn |-> config.windowSec]
    ELSE [remaining |-> Max(0, config.limit - st[userId].count + 1),
          resetIn |-> Ceil(st[userId].resetTime - now, TicksPerSec)]

getUserRateLimitData(st, userId, config, now) ==
    IF userId \notin DOMAIN st \/ now > st[userId].resetTime
    THEN [remaining |-> config.limit, resetIn |-> config.windowSec]
    ELSE [remaining |-> Max(0, config.limit - st[userId].count),
          resetIn |-> Ceil(st[userId].resetTime - now, TicksPerSec)]

\* ------------------------------------------------------ Number.toString
Digit(d) ==
    CASE d = 0 -> "0" [] d = 1 -> "1" [] d = 2 -> "2" [] d = 3 -> "3"
      [] d = 4 -> "4" [] d = 5 -> "5" [] d = 6 -> "6" [] d = 7 -> "7"
      [] d = 8 -> "8" [] OTHER -> "9"

RECURSIVE NatToString(_)
NatToString(n) ==
    IF n < 10 THEN <<Digit(n)>> ELSE NatToString(n \div 10) \o <<Digit(n % 10)>>

NumberToString(n) == IF n < 0 THEN <<"-">> \o NatToString(-n) ELSE NatToString(n)

\* ------------------------------------------- the middleware (lines 121-165)
FreshRes == [headers |-> EmptyMap, statusCode |-> OK, body |-> NoBody,
             cookie |-> Undefined]

SetHeader(res, name, value) == [res EXCEPT !.headers = Put(@, name, value)]

\* variants: the comparison rejects one call early, or one call late
LimitExceeded_AtLimit(count, config) == count >= config.limit
LimitExceeded_OneLate(count, config) == count > config.limit + 1
\* variant: every call is found over the limit
LimitExceeded_Always(count, config) == TRUE
\* variant: only the call that first passes the limit is rejected
LimitExceeded_Once(count, config) == count = config.limit + 1

LimitExceeded(count, config) == count > config.limit

\* variant: only a key without a record starts a window; an expired record
\* is counted on
IsNewWindow_AbsentOnly(st, userId, now) == userId \notin DOMAIN st

\* variant: every call writes a fresh record, losing the calls counted so far
IsNewWindow_Always(st, userId, now) == TRUE

IsNewWindow(st, userId, now) ==
    userId \notin DOMAIN st \/ now > st[userId].resetTime

\* variant: the call is counted twice
Increment_Twice(st, userId) == [st EXCEPT ![userId].count = @ + 2]

\* userData.count++
Increment(st, userId) == [st EXCEPT ![userId].count = @ + 1]

\* variant: the catch block logs and rethrows instead of calling next()
CatchHandler_Rethrow(r, fault) ==
    [r EXCEPT !.logged = TRUE, !.propagated = TRUE]

\* variant: the catch block also takes the key's record out of the store
CatchHandler_DropRecord(r, fault) ==
    [r EXCEPT !.logged = TRUE, !.nextCalls = @ + 1,
              !.propagated = (fault = "nextAlways"),
              !.store = Remove(@, r.userId)]

\* catch (error) { console.error(...); next(); }
CatchHandler(r, fault) ==
    [r EXCEPT !.logged = TRUE, !.nextCalls = @ + 1,
              !.propagated = (fault = "nextAlways")]

\* what one invocation leaves behind once cleanupExpiredEntries has run (at
\* the clock reading t1) and left the store st1, when the clock reads t2 in
\* the handler and t3 in getUserRateLimitData, and the call named by fault
\* throws when reached
MiddlewareAfterCleanup(config, st1, req, res, n, t2, t3, fault) ==
    LET g == getUserId(req, res, n, fault)
        r0 == [store |-> st1, req |-> g.req, res |-> g.res, n |-> g.n,
               userId |-> Undefined, nextCalls |-> 0, logged |-> FALSE,
               propagated |-> FALSE]
    IN IF g.threw THEN CatchHandler(r0, fault)
       ELSE
       LET userId == g.userId
           resetTime == t2 + config.windowSec * TicksPerSec
           st2 == IF IsNewWindow(st1, userId, t2)
                  THEN Put(st1, userId, [count |-> 0, resetTime |-> resetTime])
                  ELSE st1
           st3 == Increment(st2, userId)
           d == getUserRateLimitData(st3, userId, config, t3)
           r1 == [r0 EXCEPT !.store = st3, !.userId = userId]
           res1 == SetHeader(g.res, "X-RateLimit-Limit", NumberToString(config.limit))
           res2 == SetHeader(res1, "X-RateLimit-Remaining",
                             NumberToString(Max(0, d.remaining)))
           res3 == SetHeader(res2, "X-RateLimit-Reset", NumberToString(d.resetIn))
           res4 == [res3 EXCEPT !.statusCode = RATE_LIMITED]
           res5 == [res4 EXCEPT !.body = RateLimitedBody]
       IN IF fault = "storeSet" /\ IsNewWindow(st1, userId, t2)
          THEN CatchHandler([r0 EXCEPT !.userId = userId], fault)
          ELSE IF fault = "setHeaderLimit" THEN CatchHandler(r1, fault)
          ELSE IF fault = "setHeaderRemaining"
          THEN CatchHandler([r1 EXCEPT !.res = res1], fault)
          ELSE IF fault = "setHeaderReset"
          THEN CatchHandler([r1 EXCEPT !.res = res2], fault)
          ELSE IF LimitExceeded(st3[userId].count, config)
          THEN IF fault = "status"
               THEN CatchHandler([r1 EXCEPT !.res = res3], fault)
               ELSE IF fault = "json"
               THEN CatchHandler([r1 EXCEPT !.res = res4], fault)
               ELSE [r1 EXCEPT !.res = res5]
          ELSE IF fault \in {"next", "nextAlways"}
               THEN CatchHandler([r1 EXCEPT !.res = res3, !.nextCalls = 1], fault)
               ELSE [r1 EXCEPT !.res = res3, !.nextCalls = 1]

\* the middleware closure: cleanupExpiredEntries() first, then the rest
Middleware(config, st, req, res, n, t1, t2, t3, fault) ==
    MiddlewareAfterCleanup(config, cleanupExpiredEntries(st, t1),
                           req, res, n, t2, t3, fault)

\* ------------------------------------------------- parseInt(string, 10)
IsDigit(c) == c \in {"0", "1", "2", "3", "4", "5", "6", "7", "8", "9"}

DigitValue(c) ==
    CASE c = "0" -> 0 [] c = "1" -> 1 [] c = "2" -> 2 [] c = "3" -> 3
      [] c = "4" -> 4 [] c = "5" -> 5 [] c = "6" -> 6 [] c = "7" -> 7
      [] c = "8" -> 8 [] OTHER -> 9

RECURSIVE SkipSpaces(_)
SkipSpaces(s) == IF s # <<>> /\ Head(s) = " " THEN SkipSpaces(Tail(s)) ELSE s

\* the value of the leading digits of s, starting from acc
RECURSIVE ParseDigits(_, _)
ParseDigits(s, acc) ==
    IF s # <<>> /\ IsDigit(Head(s))
    THEN ParseDigits(Tail(s), 10 * acc + DigitValue(Head(s)))
    ELSE acc

\* a JavaScript number: NaN or an integer
ParseInt(str) ==
    LET s == SkipSpaces(str)
        neg == s # <<>> /\ Head(s) = "-"
        t == IF s # <<>> /\ Head(s) \in {"-", "+"} THEN Tail(s) ELSE s
    IN IF t = <<>> \/ ~IsDigit(Head(t))
       THEN [nan |-> TRUE, v |-> 0]
       ELSE [nan |-> FALSE, v |-> IF neg THEN -ParseDigits(t, 0) ELSE ParseDigits(t, 0)]

\* ------------------------------------------------------------- getConfig
\* env: process.env.RATE_LIMIT and process.env.RATE_WINDOW_SEC, each a
\* string or Undefined
getConfig(env) ==
    LET limit == ParseInt(IF env.RATE_LIMIT = Undefined
                          THEN NumberToString(DEFAULT_RATE_LIMIT)
                          ELSE env.RATE_LIMIT)
        windowSec == ParseInt(IF env.RATE_WINDOW_SEC = Undefined
                              THEN NumberToString(DEFAULT_RATE_WINDOW_SEC)
                              ELSE env.RATE_WINDOW_SEC)
    IN IF limit.nan \/ limit.v <= 0 THEN [threw |-> TRUE]
       ELSE IF windowSec.nan \/ windowSec.v <= 0 THEN [threw |-> TRUE]
       ELSE [threw |-> FALSE,
             config |-> [limit |-> limit.v, windowSec |-> windowSec.v]]

\* variant: the environment's values win over customConfig
SpreadConfig_BaseWins(baseConfig, customConfig) == baseConfig

\* { ...baseConfig, ...customConfig }
SpreadConfig(baseConfig, customConfig) ==
    [f \in {"limit", "windowSec"} |->
        IF f \in DOMAIN customConfig THEN customConfig[f] ELSE baseConfig[f]]

\* ------------------------------------------- createRateLimiterMiddleware
createRateLimiterMiddleware(env, customConfig) ==
    LET baseConfig == getConfig(env)
    IN IF baseConfig.threw THEN [threw |-> TRUE]
       ELSE [threw |-> FALSE,
             config |-> SpreadConfig(baseConfig.config, customConfig)]

\* ------------------------------------------------------------ call inputs
Request(u, c) == [userId |-> u, cookie |-> c]

\* request objects as they arrive: no preset userId and no cookie, a userId
\* cookie (possibly empty), or a userId preset by the caller
Requests ==
    {Request(Undefined, Undefined), Request(Undefined, "a"),
     Request(Undefined, "b"), Request(Undefined, ""),
     Request("a", "b"), Request("", "a")}

CookieRequests == {Request(Undefined, "a"), Request(Undefined, "b")}

Limits == 1..MaxLimit
WindowSecs == 1..MaxWindowSec
CustomConfigs == [limit : Limits, windowSec : WindowSecs]
NoEnv == [RATE_LIMIT |-> Undefined, RATE_WINDOW_SEC |-> Undefined]

\* the clock readings of one invocation: the clock may advance by up to
\* MaxSkew ticks between the three calls of Date.now()
Skews == {d \in (0..MaxSkew) \X (0..MaxSkew) : d[1] + d[2] <= MaxSkew}

\* ------------------------------------------------------- history variables
\* the window of key k after an invocation by instance i at time now
WinAfter(w, st, k, i, now, windowSec) ==
    LET opened == [windowEnd |-> now + windowSec * TicksPerSec, calls |-> 1,
                   by |-> i, mixed |-> FALSE]
    IN IF k \notin DOMAIN w
       THEN IF k \notin DOMAIN st THEN Put(w, k, opened) ELSE w
       ELSE IF now > w[k].windowEnd THEN Put(w, k, opened)
       ELSE IF now = w[k].windowEnd THEN Remove(w, k)
       ELSE [w EXCEPT ![k].calls = @ + 1, ![k].mixed = @ \/ w[k].by # i]

\* the verdict the caller of one invocation saw
Verdict(r) ==
    IF r.nextCalls = 0 /\ r.res.statusCode = RATE_LIMITED THEN "rejected"
    ELSE IF r.nextCalls >= 1 /\ r.res.statusCode # RATE_LIMITED THEN "admitted"
    ELSE "both"

NoVerdicts == [admitted |-> 0, rejected |-> 0]

\* the tallies once the windows are w and the invocation for key k, if any,
\* got the verdict: a tally starts with its window and ends with it
Tally(tl, w, k, verdict) ==
    [a \in UserIds |->
        IF a \notin DOMAIN w THEN NoVerdicts
        ELSE IF a # k THEN tl[a]
        ELSE LET old == IF w[a].calls = 1 THEN NoVerdicts ELSE tl[a]
             IN [admitted |-> old.admitted + (IF verdict = "admitted" THEN 1 ELSE 0),
                 rejected |-> old.rejected + (IF verdict = "rejected" THEN 1 ELSE 0)]]

\* the quota of key k is used up for every middleware
Exhausted(st, k) ==
    /\ k \in DOMAIN st
    /\ \A i \in DOMAIN instances : st[k].count >= instances[i].limit

\* ----------------------------------------------------------------- Init
InitCommon ==
    /\ rateLimitStore = EmptyMap
    /\ clock = 0
    /\ uuidCount = 0
    /\ reqObj = Request(Undefined, Undefined)
    /\ last = [op |-> "init"]
    /\ win = EmptyMap
    /\ without = [a \in UserIds |-> EmptyMap]
    /\ served = [a \in Clients |-> 0]
    /\ pending = [a \in UserIds |-> [n |-> 0, of |-> 0]]
    /\ wasReset = {}
    /\ noStats = EmptyMap
    /\ tally = [a \in UserIds |-> NoVerdicts]
    /\ lazy = EmptyMap
    /\ invoked = {}

\* one middleware, created with a custom configuration
Init ==
    /\ InitCommon
    /\ \E c \in CustomConfigs :
          instances = [i \in {1} |-> createRateLimiterMiddleware(NoEnv, c).config]

\* -------------------------------------------------------------- actions
\* instance i handles a request
MiddlewareCall(i, reqs, faults, skews) ==
    \E req \in reqs, fault \in faults, d \in skews :
        LET config == instances[i]
            t1 == clock
            t2 == t1 + d[1]
            t3 == t2 + d[2]
        IN
        /\ t3 <= MaxTime
        /\ \E r \in {Middleware(config, rateLimitStore, req, FreshRes, uuidCount,
                               t1, t2, t3, fault)} :
           /\ fault = "none" \/ r.logged
           /\ r.n <= MaxUuid
           /\ r.userId \in DOMAIN r.store => r.store[r.userId].count <= MaxCount
           /\ \E sh \in {[a \in UserIds |->
                        Middleware(config, without[a], req, FreshRes, uuidCount,
                                   t1, t2, t3, fault)]},
              ns \in {Middleware(config, noStats, req, FreshRes, uuidCount,
                                t1, t2, t3, fault)},
              lz \in {MiddlewareAfterCleanup(config, lazy, req, FreshRes, uuidCount,
                                             t2, t3, fault)} :
              LET k == r.userId
                  thrown == IF r.logged THEN fault ELSE "none"
              IN /\ rateLimitStore' = r.store
                 /\ clock' = t3
                 /\ uuidCount' = r.n
                 /\ reqObj' = r.req
                 /\ win' = IF k = Undefined \/ thrown = "storeSet" THEN win
                           ELSE WinAfter(win, rateLimitStore, k, i, t2, config.windowSec)
                 /\ tally' = IF k = Undefined \/ thrown = "storeSet" THEN tally
                             ELSE Tally(tally, win', k, Verdict(r))
                 /\ without' = [a \in UserIds |->
                                   IF k = a THEN without[a] ELSE sh[a].store]
                 /\ noStats' = ns.store
                 /\ lazy' = lz.store
                 /\ invoked' = IF k = Undefined THEN invoked ELSE invoked \cup {k}
                 /\ wasReset' = wasReset \ {k}
                 /\ pending' = IF k \in DOMAIN pending /\ pending[k].n > 0
                               THEN [pending EXCEPT ![k].n = @ - 1]
                               ELSE pending
                 /\ last' = [op |-> "middleware", inst |-> i, userId |-> k, req |-> req,
                             res |-> r.res, nextCalls |-> r.nextCalls,
                             logged |-> r.logged, propagated |-> r.propagated,
                             fault |-> thrown,
                             now |-> t2, hdrNow |-> t3,
                             closed |-> k \in DOMAIN win /\ t2 >= win[k].windowEnd,
                             afterReset |-> k \in wasReset,
                             purged |-> DOMAIN rateLimitStore \ DOMAIN r.store,
                             wasRejected |-> k \in UserIds /\ tally[k].rejected > 0,
                             noStats |-> [res |-> ns.res, nextCalls |-> ns.nextCalls],
                             lazy |-> [res |-> lz.res, nextCalls |-> lz.nextCalls,
                                       stale |-> k \in DOMAIN lazy
                                                    /\ k \notin DOMAIN rateLimitStore],
                             shadow |-> [a \in UserIds \ {k} |->
                                           [res |-> sh[a].res,
                                            nextCalls |-> sh[a].nextCalls]]]
                 /\ UNCHANGED <<instances, served>>

\* variant: the stats call also purges the records whose window ends now
GetRateLimitStats_PurgeAtBoundary ==
    LET st == cleanupExpiredEntries(rateLimitStore, clock + 1)
    IN /\ rateLimitStore' = st
       /\ without' = [a \in UserIds |-> cleanupExpiredEntries(without[a], clock)]
       /\ last' = [op |-> "stats", activeUsers |-> Cardinality(DOMAIN st),
                   totalEntries |-> Cardinality(DOMAIN st)]
       /\ UNCHANGED <<instances, clock, uuidCount, reqObj, win, served, pending,
                      wasReset, noStats, tally, lazy, invoked>>

\* getRateLimitStats()
GetRateLimitStats ==
    LET st == cleanupExpiredEntries(rateLimitStore, clock)
    IN /\ rateLimitStore' = st
       /\ without' = [a \in UserIds |-> cleanupExpiredEntries(without[a], clock)]
       /\ last' = [op |-> "stats", activeUsers |-> Cardinality(DOMAIN st),
                   totalEntries |-> Cardinality(DOMAIN st)]
       /\ UNCHANGED <<instances, clock, uuidCount, reqObj, win, served, pending,
                      wasReset, noStats, tally, lazy, invoked>>

\* variant: the reset purges the expired records as well
ResetUserRateLimit_AlsoExpired(userId) ==
    /\ userId \in DOMAIN rateLimitStore \cup UserIds \cup {""}
    /\ rateLimitStore' = cleanupExpiredEntries(Remove(rateLimitStore, userId), clock)
    /\ without' = [a \in UserIds |-> Remove(without[a], userId)]
    /\ noStats' = Remove(noStats, userId)
    /\ lazy' = Remove(lazy, userId)
    /\ invoked' = invoked \ {userId}
    /\ win' = Remove(win, userId)
    /\ tally' = Tally(tally, win', Undefined, "none")
    /\ wasReset' = IF Exhausted(rateLimitStore, userId)
                  THEN wasReset \cup {userId} ELSE wasReset
    /\ last' = [op |-> "resetUser", userId |-> userId,
                existed |-> userId \in DOMAIN rateLimitStore]
    /\ UNCHANGED <<instances, clock, uuidCount, reqObj, served, pending>>

\* variant: the count is set back to zero and the record, with its window,
\* stays in the store
ResetUserRateLimit_ZeroCount(userId) ==
    /\ userId \in DOMAIN rateLimitStore \cup UserIds \cup {""}
    /\ rateLimitStore' = IF userId \in DOMAIN rateLimitStore
                        THEN [rateLimitStore EXCEPT ![userId].count = 0]
                        ELSE rateLimitStore
    /\ without' = [a \in UserIds |-> Remove(without[a], userId)]
    /\ noStats' = Remove(noStats, userId)
    /\ lazy' = Remove(lazy, userId)
    /\ invoked' = invoked \ {userId}
    /\ win' = Remove(win, userId)
    /\ tally' = Tally(tally, win', Undefined, "none")
    /\ wasReset' = IF Exhausted(rateLimitStore, userId)
                  THEN wasReset \cup {userId} ELSE wasReset
    /\ last' = [op |-> "resetUser", userId |-> userId,
                existed |-> userId \in DOMAIN rateLimitStore]
    /\ UNCHANGED <<instances, clock, uuidCount, reqObj, served, pending>>

\* resetUserRateLimit(userId)
ResetUserRateLimit(userId) ==
    /\ userId \in DOMAIN rateLimitStore \cup UserIds \cup {""}
    /\ rateLimitStore' = Remove(rateLimitStore, userId)
    /\ without' = [a \in UserIds |-> Remove(without[a], userId)]
    /\ noStats' = Remove(noStats, userId)
    /\ lazy' = Remove(lazy, userId)
    /\ invoked' = invoked \ {userId}
    /\ win' = Remove(win, userId)
    /\ tally' = Tally(tally, win', Undefined, "none")
    /\ wasReset' = IF Exhausted(rateLimitStore, userId)
                  THEN wasReset \cup {userId} ELSE wasReset
    /\ last' = [op |-> "resetUser", userId |-> userId,
                existed |-> userId \in DOMAIN rateLimitStore]
    /\ UNCHANGED <<instances, clock, uuidCount, reqObj, served, pending>>

\* variant: only the expired records are dropped
ResetAllRateLimits_OnlyExpired ==
    /\ rateLimitStore' = cleanupExpiredEntries(rateLimitStore, clock)
    /\ without' = [a \in UserIds |-> EmptyMap]
    /\ noStats' = EmptyMap
    /\ lazy' = EmptyMap
    /\ invoked' = {}
    /\ win' = EmptyMap
    /\ tally' = Tally(tally, win', Undefined, "none")
    /\ last' = [op |-> "resetAll", dropped |-> Cardinality(DOMAIN rateLimitStore)]
    /\ UNCHANGED <<instances, clock, uuidCount, reqObj, served, pending, wasReset>>

\* resetAllRateLimits()
ResetAllRateLimits ==
    /\ rateLimitStore' = EmptyMap
    /\ without' = [a \in UserIds |-> EmptyMap]
    /\ noStats' = EmptyMap
    /\ lazy' = EmptyMap
    /\ invoked' = {}
    /\ win' = EmptyMap
    /\ tally' = Tally(tally, win', Undefined, "none")
    /\ last' = [op |-> "resetAll", dropped |-> Cardinality(DOMAIN rateLimitStore)]
    /\ UNCHANGED <<instances, clock, uuidCount, reqObj, served, pending, wasReset>>

\* time passes between operations
Tick ==
    /\ clock < MaxTime
    /\ clock' = clock + 1
    /\ last' = [op |-> "tick"]
    /\ UNCHANGED <<rateLimitStore, instances, uuidCount, reqObj, win, without,
                   served, pending, wasReset, noStats, tally, lazy, invoked>>

Next ==
    \/ \E i \in DOMAIN instances :
          MiddlewareCall(i, CookieRequests, {"none"}, Skews)
    \/ GetRateLimitStats
    \/ \E userId \in Keys \cup {""} : ResetUserRateLimit(userId)
    \/ ResetAllRateLimits
    \/ Tick

Spec == Init /\ [][Next]_vars

\* the same middleware when the calls it makes may throw
FaultRequests == {Request(Undefined, Undefined)}

NextFault ==
    \/ \E i \in DOMAIN instances :
          MiddlewareCall(i, FaultRequests \cup {reqObj}, Faults, {<<0, 0>>})
    \/ ResetAllRateLimits
    \/ Tick

SpecFault == Init /\ [][NextFault]_vars

\* -------------------------------------------------------- key resolution
\* requests of every shape, and request objects handled before, reach the
\* middleware
KeyRequests == Requests \ {Request(Undefined, "b")}

NextKeys ==
    \/ \E i \in DOMAIN instances :
          MiddlewareCall(i, KeyRequests \cup {reqObj}, {"none"}, {<<0, 0>>})
    \/ Tick

SpecKeys == Init /\ [][NextKeys]_vars

\* ------------------------------------------------ a client that keeps on
\* a request with the cookie userId=k is handled
CallFor(k) ==
    \E i \in DOMAIN instances :
        MiddlewareCall(i, {Request(Undefined, k)}, {"none"}, Skews)

NextLive ==
    \/ CallFor("a")
    \/ GetRateLimitStats
    \/ Tick

\* the clock keeps advancing and the client with the cookie userId=a keeps
\* sending requests, while the statistics are read at any moment; nobody
\* calls resetUserRateLimit or resetAllRateLimits
SpecLive ==
    /\ Init
    /\ [][NextLive]_vars
    /\ WF_vars(Tick)
    /\ WF_vars(CallFor("a"))

\* -------------------------------------------------- requests in flight
\* n requests with the cookie userId=k reach the server together
Arrive(k, n) ==
    /\ pending[k].n = 0
    /\ k \notin DOMAIN rateLimitStore
    /\ pending' = [pending EXCEPT ![k] = [n |-> n, of |-> n]]
    /\ last' = [op |-> "arrive", userId |-> k]
    /\ UNCHANGED <<rateLimitStore, instances, clock, uuidCount, reqObj, win, without,
                   served, wasReset, noStats, tally, lazy, invoked>>

\* the event loop runs the handler of one of the requests in flight; the
\* handler is synchronous, so it runs to its end before the next one starts
Dispatch(k) ==
    /\ pending[k].n > 0
    /\ \E i \in DOMAIN instances :
          MiddlewareCall(i, {Request(Undefined, k)}, {"none"}, Skews)

NextBurst ==
    \/ \E n \in 1..MaxInflight : Arrive("a", n)
    \/ Arrive("b", 1)
    \/ \E k \in UserIds : Dispatch(k)
    \/ Tick

SpecBurst == Init /\ [][NextBurst]_vars

\* ---------------------------------------------------- what a caller sees
IsCall == last.op = "middleware"
FaultFree == IsCall /\ ~last.logged
Header(name) == last.res.headers[name]
Admitted ==
    /\ last.nextCalls = 1
    /\ last.res.statusCode # RATE_LIMITED
    /\ last.res.body = NoBody
Rejected ==
    /\ last.nextCalls = 0
    /\ last.res.statusCode = RATE_LIMITED
    /\ last.res.body = RateLimitedBody
LastConfig == instances[last.inst]
\* the last call was made inside a window that only its own instance served
InWindow ==
    /\ FaultFree
    /\ last.userId \in DOMAIN win
    /\ ~win[last.userId].mixed
    /\ win[last.userId].by = last.inst

\* -------------------------------------------- several middleware instances
\* two middlewares created by separate calls, serving the same clients
InitMulti ==
    /\ InitCommon
    /\ \E c1 \in CustomConfigs, c2 \in CustomConfigs :
          instances = <<createRateLimiterMiddleware(NoEnv, c1).config,
                        createRateLimiterMiddleware(NoEnv, c2).config>>

NextMulti ==
    \/ \E i \in DOMAIN instances :
          MiddlewareCall(i, {Request(Undefined, "a")}, {"none"}, {<<0, 0>>})
    \/ ResetAllRateLimits
    \/ Tick

SpecMulti == InitMulti /\ [][NextMulti]_vars

\* what instance j reports for key k when it is called at time now
Report(j, k, st, now) ==
    LET r == Middleware(instances[j], st, Request(Undefined, k), FreshRes, 0,
                        now, now, now, "none")
    IN [count |-> r.store[k].count, resetTime |-> r.store[k].resetTime,
        res |-> r.res, nextCalls |-> r.nextCalls]

\* Example 2 of the usage guide: a general limiter on the app and a stricter
\* one on the router of the expensive operations
InitChain ==
    /\ InitCommon
    /\ instances =
         <<createRateLimiterMiddleware(
               NoEnv, [limit |-> GeneralLimit, windowSec |-> ExampleWindowSec]).config,
           createRateLimiterMiddleware(
               NoEnv, [limit |-> ExpensiveLimit, windowSec |-> ExampleWindowSec]).config>>

\* a client that sends the cookie userId=c posts to /api/expensive/...: the
\* app's limiter runs and, inside its next(), the router's limiter (win and
\* without are not kept for routed requests)
ExpensiveRequest(c) ==
    \E d \in Skews :
        LET t1 == clock
            t2 == t1 + d[1]
            t3 == t2 + d[2]
            g == Middleware(instances[1], rateLimitStore, Request(Undefined, c),
                            FreshRes, uuidCount, t1, t2, t3, "none")
            s == Middleware(instances[2], g.store, g.req, g.res, g.n,
                            t3, t3, t3, "none")
            passed == g.nextCalls = 1
            final == IF passed THEN s ELSE g
        IN /\ served[c] < MaxChainRequests
           /\ t3 <= MaxTime
           /\ rateLimitStore' = final.store
           /\ clock' = t3
           /\ uuidCount' = final.n
           /\ reqObj' = final.req
           /\ served' = [served EXCEPT ![c] = @ + 1]
           /\ last' = [op |-> "expensive", userId |-> c, res |-> final.res,
                       reached |-> passed /\ s.nextCalls = 1]
           /\ invoked' = invoked \cup {final.userId}
           /\ UNCHANGED <<instances, win, without, pending, wasReset, noStats, tally, lazy>>

NextChain ==
    \/ \E c \in UserIds : ExpensiveRequest(c)
    \/ Tick

SpecChain == InitChain /\ [][NextChain]_vars

\* ------------------------------------------------------------ the server
\* app.use(cookieParser()); app.use(createRateLimiterMiddleware()) with no
\* RATE_LIMIT and RATE_WINDOW_SEC in the environment
InitServer ==
    /\ InitCommon
    /\ instances = [i \in {1} |-> createRateLimiterMiddleware(NoEnv, EmptyMap).config]

\* the client that never sends a cookie sends a request: cookieParser leaves
\* req.cookies empty and nothing presets req.userId (win, without and lazy are not
\* kept for these requests)
AnonymousRequest ==
    \E d \in Skews :
        LET t1 == clock
            t2 == t1 + d[1]
            t3 == t2 + d[2]
            r == Middleware(instances[1], rateLimitStore,
                            Request(Undefined, Undefined), FreshRes, uuidCount,
                            t1, t2, t3, "none")
        IN /\ served[Anonymous] < MaxClientRequests
           /\ t3 <= MaxTime
           /\ rateLimitStore' = r.store
           /\ clock' = t3
           /\ uuidCount' = r.n
           /\ reqObj' = r.req
           /\ served' = [served EXCEPT ![Anonymous] = @ + 1]
           /\ last' = [op |-> "server", userId |-> r.userId, res |-> r.res,
                       nextCalls |-> r.nextCalls]
           /\ invoked' = invoked \cup {r.userId}
           /\ UNCHANGED <<instances, win, without, pending, wasReset, noStats, tally, lazy>>

NextServer ==
    \/ AnonymousRequest
    \/ Tick

SpecServer == InitServer /\ [][NextServer]_vars

\* ------------------------------------------------------- construction
EnvValues == {Undefined, <<"3">>, <<"0">>, <<"-", "1">>, <<"x">>, <<"2", "x">>}
Envs == [RATE_LIMIT : EnvValues, RATE_WINDOW_SEC : EnvValues]
PartialConfigs ==
    {EmptyMap} \cup [limit : {0, 1}] \cup [windowSec : {0, 1}]
        \cup [limit : {-1, 2}, windowSec : {-1, 1}]

InitConfig ==
    /\ InitCommon
    /\ instances = <<>>

\* the application calls createRateLimiterMiddleware(customConfig) with
\* process.env = env, until the call returns a middleware
Create ==
    \E env \in Envs, customConfig \in PartialConfigs :
        LET r == createRateLimiterMiddleware(env, customConfig)
        IN /\ instances = <<>>
           /\ instances' = IF r.threw THEN instances
                           ELSE Append(instances, r.config)
           /\ last' = [op |-> "create", threw |-> r.threw, env |-> env,
                       customConfig |-> customConfig]
           /\ UNCHANGED <<rateLimitStore, clock, uuidCount, reqObj, win, without,
                          served, pending, wasReset, noStats, tally, lazy, invoked>>

NextConfig ==
    \/ Create
    \/ \E i \in DOMAIN instances :
          MiddlewareCall(i, {Request(Undefined, "a")}, {"none"}, {<<0, 0>>})
    \/ Tick

SpecConfig == InitConfig /\ [][NextConfig]_vars

\* C1: of the calls one middleware receives for a key inside one window that
\* started from an absent record, the first L are admitted (next is called,
\* no 429) and the (L+1)-th is rejected with 429.
C1_FirstLAdmitted ==
    InWindow =>
        LET n == win[last.userId].calls
            L == LastConfig.limit
        IN /\ n <= L => Admitted
           /\ n = L + 1 => Rejected

C1_Witness ==
    /\ InWindow
    /\ LastConfig.limit = 2
    /\ win[last.userId].calls = 3
    /\ Rejected

C3_FreshWindowAtExpiry ==
    (FaultFree /\ last.closed) =>
        /\ rateLimitStore[last.userId].count = 1
        /\ Admitted
        /\ Header("X-RateLimit-Remaining") = NumberToString(LastConfig.limit - 1)

\* C4: every call that sets the headers reports
\* X-RateLimit-Reset = ceil((windowEnd - now) / 1 second) for the key's
\* current window, a value in 1..windowSec.
C4_ResetInRange ==
    (IsCall /\ "X-RateLimit-Reset" \in DOMAIN last.res.headers) =>
        /\ Header("X-RateLimit-Reset") =
             NumberToString(Ceil(rateLimitStore[last.userId].resetTime - last.hdrNow,
                                 TicksPerSec))
        /\ \E v \in 1..LastConfig.windowSec :
             Header("X-RateLimit-Reset") = NumberToString(v)

\* C5: for distinct keys A and B, what a call for B reports (verdict,
\* remaining, reset) is what it reports in the run without A's calls.
C5_KeysIndependent ==
    IsCall =>
        \A a \in DOMAIN last.shadow :
            last.shadow[a] = [res |-> last.res, nextCalls |-> last.nextCalls]

C5_Witness ==
    /\ FaultFree
    /\ last.userId = "b"
    /\ Admitted
    /\ "a" \in DOMAIN rateLimitStore
    /\ rateLimitStore["a"].count > LastConfig.limit
    /\ rateLimitStore["a"].resetTime > last.hdrNow
    /\ "a" \notin DOMAIN without["a"]

\* C10: a call in which nothing throws sends 429 with the rate_limited body
\* and does not call next() when the key's count after the increment exceeds
\* the limit, and otherwise calls next() and sends no 429.
C10_VerdictApplied ==
    FaultFree =>
        IF rateLimitStore[last.userId].count > LastConfig.limit
        THEN Rejected
        ELSE Admitted

C10_Witness ==
    /\ FaultFree
    /\ rateLimitStore[last.userId].count = LastConfig.limit + 1
    /\ Rejected

\* C9: when a step of a call throws (resolving the key, changing the store,
\* setting a header, sending the 429) the exception does not reach the
\* caller: it is logged and next() is called, whatever the key's count is.
CaughtFaults == {"cookie", "storeSet", "setHeaderLimit", "setHeaderRemaining",
                 "setHeaderReset", "status", "json"}

C9_FailOpen ==
    (IsCall /\ last.fault \in CaughtFaults) =>
        /\ ~last.propagated
        /\ last.logged
        /\ last.nextCalls = 1

C9_Witness ==
    /\ IsCall
    /\ last.fault = "json"
    /\ rateLimitStore[last.userId].count > LastConfig.limit
    /\ last.res.statusCode = RATE_LIMITED
    /\ last.nextCalls = 1
    /\ ~last.propagated

\* C6: a call of one middleware instance for a key never changes the count,
\* window end, verdict, remaining or reset value another instance reports
\* for that key.
C6_InstancesIndependent ==
    [][\A i \in DOMAIN instances, j \in DOMAIN instances, k \in UserIds :
          (i # j /\ last'.op = "middleware" /\ last'.inst = i
                 /\ last'.userId = k)
              => Report(j, k, rateLimitStore', clock')
                   = Report(j, k, rateLimitStore, clock')]_vars

\* C7: behind a general limiter (100 per 60 s), the limiter of the expensive
\* router (5 per 60 s) lets a client reach a route of that router exactly 5
\* times in a window: requests 1..5 pass both limiters, the 6th is the first
\* to be rejected.
C7_FivePerWindow ==
    last.op = "expensive" =>
        (last.reached <=> served[last.userId] <= ExpensiveLimit)

\* C8: no middleware instance exists with limit <= 0 or windowSec <= 0:
\* construction throws whenever the effective configuration is invalid,
\* also when the invalid value comes from customConfig.
C8_InvalidConfigRefused ==
    \A i \in DOMAIN instances :
        instances[i].limit > 0 /\ instances[i].windowSec > 0

RateLimitHeaders == {"X-RateLimit-Limit", "X-RateLimit-Remaining", "X-RateLimit-Reset"}

\* C11: every response that went through the middleware, whether the request
\* was admitted, rejected or let through after a fault, carries the three
\* headers: X-RateLimit-Limit is the configured limit, and X-RateLimit-Remaining
\* and X-RateLimit-Reset are computed from the stored record in the same way
\* for both verdicts.
C11_HeadersOnEveryResponse ==
    IsCall =>
        /\ RateLimitHeaders \subseteq DOMAIN last.res.headers
        /\ Header("X-RateLimit-Limit") = NumberToString(LastConfig.limit)
        /\ LET d == getUserRateLimitData(rateLimitStore, last.userId, LastConfig,
                                         last.hdrNow)
           IN /\ Header("X-RateLimit-Remaining") = NumberToString(Max(0, d.remaining))
              /\ Header("X-RateLimit-Reset") = NumberToString(d.resetIn)

Min(a, b) == IF a <= b THEN a ELSE b

\* C12: when N requests for one key are in flight together and all of them
\* are handled inside one window that started from an absent record, then,
\* whatever the order in which the event loop runs them among the other
\* requests, exactly min(N, L) of them are admitted and max(0, N - L) are
\* rejected.
C12_BurstAdmitsMinNL ==
    \A k \in UserIds :
        (/\ pending[k].of > 0
         /\ pending[k].n = 0
         /\ k \in DOMAIN win
         /\ win[k].calls = pending[k].of)
        => /\ tally[k].admitted = Min(pending[k].of, instances[1].limit)
           /\ tally[k].rejected = Max(0, pending[k].of - instances[1].limit)

\* a burst of three for a limit of two, run interleaved with another key's burst
C12_Witness ==
    /\ instances[1].limit = 2
    /\ pending["a"] = [n |-> 0, of |-> 3]
    /\ "a" \in DOMAIN win
    /\ win["a"].calls = 3
    /\ tally["a"] = [admitted |-> 2, rejected |-> 1]
    /\ pending["b"] = [n |-> 1, of |-> 1]

\* C13: inside one window the stored count of a key is the number of
\* invocations made for that key in the window, admitted and rejected alike:
\* an invocation for the key adds exactly one to its count (also beyond the
\* limit) or starts a new record at one, and no other step changes a record
\* that stays in the store.
C13_CountsEveryInvocation ==
    [][\A k \in DOMAIN rateLimitStore' :
          /\ IF last'.op = "middleware" /\ last'.userId = k
             THEN rateLimitStore'[k].count =
                     IF /\ k \in DOMAIN rateLimitStore
                        /\ rateLimitStore[k].resetTime = rateLimitStore'[k].resetTime
                     THEN rateLimitStore[k].count + 1
                     ELSE 1
             ELSE k \in DOMAIN rateLimitStore /\ rateLimitStore'[k] = rateLimitStore[k]
          /\ k \in DOMAIN win' => rateLimitStore'[k].count = win'[k].calls]_vars

\* a rejected call has taken the count two beyond the limit
C13_Witness ==
    /\ InWindow
    /\ Rejected
    /\ rateLimitStore[last.userId].count = LastConfig.limit + 2
    /\ win[last.userId].calls = LastConfig.limit + 2

\* C14: after resetUserRateLimit(k) on a key whose quota was used up, the
\* next invocation for k is handled exactly as the first invocation of a key
\* the store has never seen: it is admitted, the count is 1, the remaining
\* quota is L - 1 and a new window of full length starts at that invocation.
C14_ResetGivesFreshStart ==
    (FaultFree /\ last.afterReset) =>
        LET k == last.userId
            first == Middleware(LastConfig, EmptyMap, last.req, FreshRes, uuidCount,
                                last.now, last.now, last.hdrNow, "none")
        IN /\ Admitted
           /\ rateLimitStore[k].count = 1
           /\ rateLimitStore[k].resetTime =
                 last.now + LastConfig.windowSec * TicksPerSec
           /\ Header("X-RateLimit-Remaining") = NumberToString(LastConfig.limit - 1)
           /\ rateLimitStore[k] = first.store[k]
           /\ last.res = first.res
           /\ last.nextCalls = first.nextCalls

\* the key is called again, later than the reset's window began and while
\* another key has a record
C14_Witness ==
    /\ FaultFree
    /\ last.afterReset
    /\ Admitted
    /\ last.now > 0
    /\ DOMAIN rateLimitStore = UserIds

\* C15: resetUserRateLimit(k) is idempotent and touches only k: afterwards k
\* has no record and every other key's record is what it was; on a key that
\* has no record it leaves the store unchanged; and a second reset of the
\* same key right after the first changes nothing more.
C15_ResetIdempotentAndLocal ==
    [][last'.op = "resetUser" =>
          LET k == last'.userId
          IN /\ k \notin DOMAIN rateLimitStore'
             /\ DOMAIN rateLimitStore' = DOMAIN rateLimitStore \ {k}
             /\ \A x \in DOMAIN rateLimitStore' :
                   rateLimitStore'[x] = rateLimitStore[x]
             /\ k \notin DOMAIN rateLimitStore => rateLimitStore' = rateLimitStore
             /\ (last.op = "resetUser" /\ last.userId = k)
                   => rateLimitStore' = rateLimitStore]_vars

\* the key was reset when it had a record and is reset again; another key
\* keeps its record
C15_Witness ==
    /\ last.op = "resetUser"
    /\ ~last.existed
    /\ last.userId \in wasReset
    /\ DOMAIN rateLimitStore # {}

\* C16: after resetAllRateLimits() the store is empty whatever it held (on an
\* empty store the call changes nothing); a getRateLimitStats() call made
\* next reports activeUsers = 0, and a request handled next is treated as
\* the first request of a key never seen.
C16_ResetAllEmptiesStore ==
    [][/\ last'.op = "resetAll" => rateLimitStore' = EmptyMap
       /\ (last.op = "resetAll" /\ last'.op = "stats")
             => last'.activeUsers = 0 /\ last'.totalEntries = 0
       /\ (last.op = "resetAll" /\ last'.op = "middleware" /\ ~last'.logged)
             => LET k == last'.userId
                    first == Middleware(instances[last'.inst], EmptyMap, last'.req,
                                        FreshRes, uuidCount, last'.now, last'.now,
                                        last'.hdrNow, "none")
                IN /\ rateLimitStore'[k].count = 1
                   /\ rateLimitStore' = first.store
                   /\ last'.res = first.res
                   /\ last'.nextCalls = 1]_vars

\* resetAllRateLimits() was called on a store with two records
C16_Witness ==
    /\ last.op = "resetAll"
    /\ last.dropped = 2
    /\ rateLimitStore = EmptyMap

\* C17: getRateLimitStats() returns activeUsers = totalEntries = the number
\* of keys left in the store once the expired records are purged, and the
\* stats calls of a run change no later response: every request gets the
\* verdict, remaining and reset it gets in the same run without them.
C17_StatsCountsAndChangesNothing ==
    /\ last.op = "stats" =>
          /\ last.activeUsers = Cardinality(DOMAIN rateLimitStore)
          /\ last.totalEntries = last.activeUsers
          /\ \A k \in DOMAIN rateLimitStore : ~IsExpired(clock, rateLimitStore[k])
          /\ rateLimitStore = cleanupExpiredEntries(noStats, clock)
    /\ IsCall => last.noStats = [res |-> last.res, nextCalls |-> last.nextCalls]

\* a stats call has purged an expired record, which the run without stats
\* calls still holds, and has left one
C17_Witness ==
    /\ last.op = "stats"
    /\ last.activeUsers = 1
    /\ Cardinality(DOMAIN noStats) = 2

\* C18: the successive requests of one client that never sends a userId
\* cookie are counted against one quota: with the default limit 5 and window
\* 60 the first five are passed on with X-RateLimit-Remaining 4, 3, 2, 1, 0
\* and the sixth is answered 429.
C18_AnonymousClientLimited ==
    last.op = "server" =>
        LET n == served[Anonymous]
        IN /\ n <= DEFAULT_RATE_LIMIT =>
                 /\ Admitted
                 /\ Header("X-RateLimit-Remaining")
                       = NumberToString(DEFAULT_RATE_LIMIT - n)
           /\ n = DEFAULT_RATE_LIMIT + 1 => Rejected

\* the key of the request is the empty string: preset, or sent as the cookie
\* of a request with no preset userId
ResolvesToEmpty(req) ==
    req.userId = "" \/ (req.userId = Undefined /\ req.cookie = "")

\* C19: the empty string is a valid client key: every request whose preset
\* userId or userId cookie is "" is counted, without an error, against the
\* one record stored under "", and is rejected once that record's count is
\* beyond the limit.
C19_EmptyKeyCounted ==
    (IsCall /\ ResolvesToEmpty(last.req)) =>
        /\ ~last.logged
        /\ last.userId = ""
        /\ "" \in DOMAIN rateLimitStore
        /\ Rejected <=> rateLimitStore[""].count > LastConfig.limit

\* C20: once an invocation for a key has been rejected, every later
\* invocation for that key in the same window is rejected too, unless the key
\* is reset: the verdicts of a window are some admissions followed only by
\* rejections.
C20_RejectedStaysRejected ==
    (InWindow /\ last.userId \in UserIds) =>
        LET w == win[last.userId]
            v == tally[last.userId]
        IN /\ Admitted \/ Rejected
           /\ Admitted => v.rejected = 0 /\ v.admitted = w.calls
           /\ Rejected => v.rejected >= 1 /\ v.admitted + v.rejected = w.calls

\* a second rejection in a window that began with an admission
C20_Witness ==
    /\ InWindow
    /\ Rejected
    /\ tally[last.userId].admitted >= 1
    /\ tally[last.userId].rejected = 2

\* C21: the window is fixed: an invocation at time t that creates or replaces
\* the record of its key sets the window end to exactly t + windowSec, and an
\* invocation made before the window end, admitted or rejected, leaves the
\* window end as it was; no step other than an invocation for the key writes
\* a window end.
C21_WindowIsFixed ==
    [][\A k \in DOMAIN rateLimitStore' :
          LET called == last'.op = "middleware" /\ last'.userId = k
              fresh == k \notin DOMAIN rateLimitStore
                          \/ rateLimitStore'[k].resetTime # rateLimitStore[k].resetTime
          IN /\ fresh =>
                   /\ called
                   /\ rateLimitStore'[k].resetTime =
                         last'.now + instances[last'.inst].windowSec * TicksPerSec
                   /\ rateLimitStore'[k].count = 1
             /\ (called /\ k \in DOMAIN rateLimitStore
                    /\ last'.now < rateLimitStore[k].resetTime) => ~fresh]_vars

\* a rejected call made later than the start of its window has left the
\* window end where the first call of the window put it
C21_Witness ==
    /\ InWindow
    /\ Rejected
    /\ win[last.userId].calls = LastConfig.limit + 2
    /\ rateLimitStore[last.userId].resetTime = win[last.userId].windowEnd
    /\ last.now + LastConfig.windowSec * TicksPerSec > win[last.userId].windowEnd

\* C22: if the clock keeps advancing and the client keeps sending requests
\* for a key, then whenever a request for the key is rejected, a later
\* request for it is admitted, without any reset call (the rejections looked
\* at are those whose window ends before the last clock reading of the
\* model, MaxTime).
C22_RejectedEventuallyAdmitted ==
    (/\ IsCall /\ last.userId = "a" /\ Rejected
     /\ rateLimitStore["a"].resetTime < MaxTime)
    ~> (IsCall /\ last.userId = "a" /\ Admitted)

\* a request is admitted in a new window after the requests of the key's
\* last window had been rejected
C22_Witness ==
    /\ FaultFree
    /\ Admitted
    /\ last.wasRejected
    /\ last.closed
    /\ rateLimitStore[last.userId].count = 1

\* C23: the engine that runs the full cleanup scan on every invocation and
\* the engine that never cleans up (expiry is checked only on the key it
\* handles) give the same response to every invocation: same verdict, same
\* X-RateLimit-Remaining, same X-RateLimit-Reset. Their stores differ only
\* by records that have expired, and a key whose record was purged is
\* treated like a key whose expired record is still there.
C23_CleanupInsensitive ==
    /\ IsCall => /\ last.lazy.res = last.res
                 /\ last.lazy.nextCalls = last.nextCalls
    /\ \A k \in DOMAIN rateLimitStore :
          k \in DOMAIN lazy /\ lazy[k] = rateLimitStore[k]
    /\ \A k \in DOMAIN lazy \ DOMAIN rateLimitStore : IsExpired(clock, lazy[k])

\* a request is admitted for a key whose expired record the cleanup had
\* purged and the engine without cleanup still held, while that engine
\* still holds the expired record of another key
C23_Witness ==
    /\ FaultFree
    /\ Admitted
    /\ last.lazy.stale
    /\ last.wasRejected
    /\ DOMAIN lazy \ DOMAIN rateLimitStore # {}

\* C24: right after a middleware invocation or a getRateLimitStats call made
\* at time t, every record left in the store has a window end later than t:
\* the records whose window end is t or earlier have been dropped.
C24_NoExpiredRecordLeft ==
    last.op \in {"middleware", "stats"} =>
        \A k \in DOMAIN rateLimitStore : rateLimitStore[k].resetTime > clock

\* C25: the key of a request is its preset userId if it has one, otherwise
\* the value of its userId cookie, otherwise an id generated for it that
\* differs from every id issued before; the key is stored on the request
\* object, so a later invocation with that object uses the same key; the
\* response sets a userId cookie exactly when an id was generated.
C25_KeyResolution ==
    IsCall =>
        LET req == last.req
            generated == req.userId = Undefined /\ req.cookie = Undefined
        IN /\ req.userId # Undefined => last.userId = req.userId
           /\ (req.userId = Undefined /\ req.cookie # Undefined) =>
                 last.userId = req.cookie
           /\ generated =>
                 /\ uuidCount > 0
                 /\ last.userId = Uuid(uuidCount)
                 /\ \A m \in 1..(uuidCount - 1) : Uuid(m) # last.userId
           /\ reqObj.userId = last.userId
           /\ (last.res.cookie # Undefined) <=> generated

\* the configuration createRateLimiterMiddleware(customConfig) is to enforce
\* when process.env = env: customConfig's value where it gives one, else the
\* number read from the environment variable, else the default
EffectiveConfig(env, customConfig) ==
    [limit |-> IF "limit" \in DOMAIN customConfig THEN customConfig.limit
               ELSE IF env.RATE_LIMIT # Undefined THEN ParseInt(env.RATE_LIMIT).v
               ELSE DEFAULT_RATE_LIMIT,
     windowSec |-> IF "windowSec" \in DOMAIN customConfig THEN customConfig.windowSec
                   ELSE IF env.RATE_WINDOW_SEC # Undefined
                   THEN ParseInt(env.RATE_WINDOW_SEC).v
                   ELSE DEFAULT_RATE_WINDOW_SEC]

\* C26: a middleware instance enforces the limit and the window given in
\* customConfig where present, and otherwise the values of RATE_LIMIT and
\* RATE_WINDOW_SEC in the environment, 5 and 60 when they are not set; the
\* two values are fixed when the instance is created and no later step
\* changes them.
C26_ConfigFixedAtCreation ==
    [][/\ (last'.op = "create" /\ ~last'.threw) =>
             instances' = <<EffectiveConfig(last'.env, last'.customConfig)>>
       /\ last'.op # "create" => instances' = instances
       /\ last'.op = "middleware" =>
             LET k == last'.userId
                 config == instances[last'.inst]
                 opened == k \notin DOMAIN rateLimitStore
                              \/ rateLimitStore'[k].resetTime # rateLimitStore[k].resetTime
             IN /\ last'.res.headers["X-RateLimit-Limit"] = NumberToString(config.limit)
                /\ last'.res.statusCode = RATE_LIMITED
                      <=> rateLimitStore'[k].count > config.limit
                /\ opened => rateLimitStore'[k].resetTime =
                                last'.now + config.windowSec * TicksPerSec]_vars

\* the second call of a key is rejected by a middleware that took its limit,
\* 1, from customConfig and its window, 2 seconds, from RATE_WINDOW_SEC=2x
C26_Witness ==
    /\ IsCall
    /\ Rejected
    /\ LastConfig = [limit |-> 1, windowSec |-> 2]
    /\ rateLimitStore[last.userId].count = 2

\* C27: every invocation ends in exactly one outcome: next() has been called
\* exactly once and no 429 was set, or the 429 was sent and next() was not
\* called; also when setHeader, status, json or next() itself throws.
C27_ExactlyOneOutcome ==
    IsCall =>
        \/ /\ last.nextCalls = 1
           /\ last.res.statusCode # RATE_LIMITED
           /\ last.res.body = NoBody
        \/ /\ last.nextCalls = 0
           /\ last.res.statusCode = RATE_LIMITED
           /\ last.res.body = RateLimitedBody

\* C28: the quota values an invocation reports agree with its verdict also
\* when the clock advances between the reads of the time made by the
\* cleanup, the window check and the header computation: a rejected
\* invocation reports X-RateLimit-Remaining = 0, and every invocation
\* reports max(0, limit - count) for the count its verdict was based on.
C28_QuotaConsistentWithVerdict ==
    FaultFree =>
        LET count == rateLimitStore[last.userId].count
        IN /\ Rejected => Header("X-RateLimit-Remaining") = NumberToString(0)
           /\ Header("X-RateLimit-Remaining") =
                 NumberToString(Max(0, LastConfig.limit - count))

HeaderFaults == {"setHeaderLimit", "setHeaderRemaining", "setHeaderReset"}

\* C29: an invocation in which setting a response header throws leaves the
\* store exactly as the same invocation without the fault leaves it: the
\* key's count is one more than before and its window end is the same (count
\* 1 in a new window when the key had no live record), so every later
\* verdict, for this key and for the others, is what it would have been.
C29_HeaderFaultKeepsStore ==
    [][(last'.op = "middleware" /\ last'.fault \in HeaderFaults) =>
          LET k == last'.userId
              config == instances[last'.inst]
              faultFree == Middleware(config, rateLimitStore, last'.req, FreshRes,
                                      uuidCount, clock, last'.now, last'.hdrNow, "none")
              live == k \in DOMAIN rateLimitStore
                         /\ ~IsExpired(last'.now, rateLimitStore[k])
          IN /\ rateLimitStore' = faultFree.store
             /\ k = faultFree.userId
             /\ live => rateLimitStore'[k] =
                           [count |-> rateLimitStore[k].count + 1,
                            resetTime |-> rateLimitStore[k].resetTime]
             /\ ~live => rateLimitStore'[k] =
                            [count |-> 1,
                             resetTime |-> last'.now + config.windowSec * TicksPerSec]
             /\ \A b \in DOMAIN rateLimitStore' \ {k} :
                   b \in DOMAIN rateLimitStore /\ rateLimitStore'[b] = rateLimitStore[b]]_vars

\* a request over the limit is let through because setHeader threw, and has
\* been counted
C29_Witness ==
    /\ IsCall
    /\ last.fault = "setHeaderRemaining"
    /\ last.nextCalls = 1
    /\ rateLimitStore[last.userId].count = LastConfig.limit + 1

\* C30: an invocation for key A leaves the record of every other key B as it
\* was, or deletes it when it had already expired at the time of the
\* invocation; it never creates a record for B, changes B's count or moves
\* B's window end.
C30_OtherKeysUntouched ==
    [][last'.op = "middleware" =>
          \A b \in (DOMAIN rateLimitStore \cup DOMAIN rateLimitStore') \ {last'.userId} :
              /\ b \in DOMAIN rateLimitStore
              /\ IF IsExpired(clock, rateLimitStore[b])
                 THEN b \notin DOMAIN rateLimitStore'
                 ELSE b \in DOMAIN rateLimitStore'
                         /\ rateLimitStore'[b] = rateLimitStore[b]]_vars

\* a call for one key has deleted the expired record of the other key, and
\* only that
C30_Witness ==
    /\ FaultFree
    /\ last.purged # {}
    /\ last.userId \notin last.purged
    /\ DOMAIN rateLimitStore = {last.userId}

\* C31: in every state between two operations, every record of the store
\* has a count of at least 1, and its key has been the key of at least one
\* invocation since that key was last reset.
C31_RecordsCountedAndCalled ==
    \A k \in DOMAIN rateLimitStore :
        /\ rateLimitStore[k].count >= 1
        /\ k \in invoked

\* an exhausted key was reset and then called again: its record is back with
\* count 1, next to the record of the other key
C31_Witness ==
    /\ FaultFree
    /\ last.afterReset
    /\ rateLimitStore[last.userId].count = 1
    /\ Cardinality(DOMAIN rateLimitStore) = 2
====
